---- MODULE Spec2Model ----
(***************************************************************************)
(* Reference Set Encoding (RSE) for privacy-preserving record linkage.     *)
(*                                                                         *)
(*   ref-set-generator/generator.py   the reference-set generator          *)
(*   encoder/ref_set_processor.py     weighing and frequency-based rank    *)
(*                                    swapping of the reference sets       *)
(*   encoder/data_encoder.py          similarity ranking and bit-array     *)
(*                                    signatures of the records            *)
(*                                                                         *)
(* The three programs run one after the other and hand their results over  *)
(* as files, so each has a specification of its own (SpecGen, SpecSwap,     *)
(* SpecEnc) over its own variables; the variables of the other programs    *)
(* stay at their idle values.                                              *)
(*                                                                         *)
(* A q-gram is modelled as a number 1..MaxN (its rank in the alphabet);    *)
(* the q-grams "ab" and "ba" of the two-symbol scenario are 1 and 2.       *)
(***************************************************************************)
EXTENDS Integers, FiniteSets, Sequences, Bags, TLC

\* ---------------------------------------------------------------- bounds
MaxN == 5        \* largest alphabet (number of q-grams)
MaxR == 3        \* largest r_length
MaxK == 2        \* largest k
MaxTry == 2      \* try_counter saturates here: the code only tests try_counter > 1
MaxQ == 4        \* q-grams that occur in a reference-set file
MaxM == 3        \* largest number of rows of a reference-set file
MaxF == 4        \* largest frequency of the public frequency table
MaxMods == 6     \* the modification counters saturate here
MaxU == 3        \* q-grams that occur in the records and reference sets of the encoder
MaxRecs == 2     \* largest number of records of a database
MaxS == 7        \* q-grams of one call of gen_init_int_signature

VARIABLES
    \* generator.py, ref_set_generator
    q_c,                      \* the alphabet handed to the generator
    r_length,                 \* length of each reference set
    k,                        \* required number of occurrences of each q-gram
    q_gram_counter,           \* dict: occurrence count -> q-grams with that count
    ref_sets,                 \* list of accepted reference sets (a bag: order is never read)
    counter_key,              \* smallest key of q_gram_counter in this round
    q_grams_in_smallest_key,  \* copy of that bucket taken at the start of the round
    try_counter,              \* attempts made in this round
    gpc                       \* position in ref_set_generator

genVars == <<q_c, r_length, k, q_gram_counter, ref_sets, counter_key,
             q_grams_in_smallest_key, try_counter, gpc>>

VARIABLES
    \* ref_set_processor.py, RandomQgramSetGenerator and frequency_based_rank_swapping
    init_random_sets,         \* dict: row index -> q-grams of the row (read_init_random_sets)
    frequent_q_grams,         \* dict: q-gram -> frequency (read_q_gram_freq_info)
    weighed_random_sets,      \* dict: index -> weighted reference set
    random_sets,              \* the set of tuples built on entry of the swapping
    swaps_tracker,            \* dict: index -> number of swaps it took part in
    successful_modifications, \* number of accepted swaps
    stop_processing,          \* loop flag of the swapping
    min_element_index,        \* function-local scan counters; Unbound before
    max_element_index,        \*   their first assignment
    processed_indexed_r,      \* dict: index -> q-gram set, the pool that is returned
    spc                       \* position in generate_random_q_gram_sets

swapVars == <<init_random_sets, frequent_q_grams, weighed_random_sets, random_sets,
              swaps_tracker, successful_modifications, stop_processing,
              min_element_index, max_element_index, processed_indexed_r, spc>>

VARIABLES
    \* data_encoder.py, the main program
    reference_q_gram_sets,    \* dict: index -> reference q-gram set
    data_dic1,                \* the records of the first database, each with its
    data_dic2,                \*   q-gram set and its signature; the second database
    enc_k,                    \* k of the command line
    initial_ls,               \* length of the initial integer signatures
    input1_smallest_k,        \* smallest signature length of either database;
    input2_smallest_k,        \*   Unbound before it is assigned
    num_1_bits,               \* number of 1-bits of every signature
    epc                       \* position in the main program

encVars == <<reference_q_gram_sets, data_dic1, data_dic2, enc_k, initial_ls,
             input1_smallest_k, input2_smallest_k, num_1_bits, epc>>

VARIABLES
    \* data_encoder.py, one call of q_gram_jacc_sim
    q_gram_set1,
    q_gram_set2,
    jacc_sim,                 \* the value returned
    jpc                       \* position in q_gram_jacc_sim

jaccVars == <<q_gram_set1, q_gram_set2, jacc_sim, jpc>>

vars == <<genVars, swapVars, encVars, jaccVars>>

\* a local variable that was never assigned
Unbound == 0 - 1

\* what each program leaves alone
otherThanGen == <<swapVars, encVars, jaccVars>>
otherThanSwap == <<genVars, encVars, jaccVars>>
otherThanEnc == <<genVars, swapVars, jaccVars>>
otherThanJacc == <<genVars, swapVars, encVars>>

\* ------------------------------------------------------------ generator.py

\* random.sample(population, k = n): any n distinct elements of the population
Sample(population, n) == {T \in SUBSET population : Cardinality(T) = n}

\* min(q_gram_counter.keys())
MinKey(counter) == CHOOSE key \in DOMAIN counter : \A other \in DOMAIN counter : key <= other

\* a loop test that is off by one
check_q_gram_availability_OffByOne(counter, kk) ==
    \A key \in DOMAIN counter : ~(key < kk - 1 /\ counter[key] # {})

\* a loop test that goes on while a bucket at k holds q-grams
check_q_gram_availability_Inclusive(counter, kk) ==
    \A key \in DOMAIN counter : ~(key <= kk /\ counter[key] # {})

check_q_gram_availability(counter, kk) ==
    \A key \in DOMAIN counter : ~(key < kk /\ counter[key] # {})

\* an update that leaves the q-grams in their old bucket as well
update_q_gram_counter_KeepOld(counter, q_grams, key) ==
    [i \in DOMAIN counter \cup {key + 1} |->
        IF i = key + 1
        THEN (IF i \in DOMAIN counter THEN counter[i] ELSE {}) \cup q_grams
        ELSE counter[i]]

\* Moves q_grams from bucket key to bucket key + 1; a bucket emptied by the
\* removal is deleted, the next bucket is created when it is missing.
update_q_gram_counter(counter, q_grams, key) ==
    IF q_grams = {} THEN counter
    ELSE LET next_key == key + 1
             rest     == counter[key] \ q_grams
             keys     == (IF rest = {} THEN DOMAIN counter \ {key} ELSE DOMAIN counter)
                         \cup {next_key}
         IN  [i \in keys |->
                 IF i = next_key
                 THEN (IF next_key \in DOMAIN counter THEN counter[next_key] ELSE {})
                      \cup q_grams
                 ELSE IF i = key THEN rest ELSE counter[i]]

\* a membership test that was left out
IsNew_Unchecked(qs_r) == TRUE

\* qs_r not in ref_sets
IsNew(qs_r) == ~BagIn(qs_r, ref_sets)

\* The encoder's variables while another program runs.
IdleEnc ==
    /\ reference_q_gram_sets = <<>>
    /\ data_dic1 = <<>>
    /\ data_dic2 = <<>>
    /\ enc_k = 0
    /\ initial_ls = 0
    /\ input1_smallest_k = Unbound
    /\ input2_smallest_k = Unbound
    /\ num_1_bits = Unbound
    /\ epc = "idle"

IdleJacc ==
    /\ q_gram_set1 = {}
    /\ q_gram_set2 = {}
    /\ jacc_sim = [num |-> 0, den |-> 1]
    /\ jpc = "idle"

\* The optimizer's variables while another program runs.
IdleSwap ==
    /\ init_random_sets = <<>>
    /\ frequent_q_grams = <<>>
    /\ weighed_random_sets = <<>>
    /\ random_sets = {}
    /\ swaps_tracker = <<>>
    /\ successful_modifications = 0
    /\ stop_processing = FALSE
    /\ min_element_index = Unbound
    /\ max_element_index = Unbound
    /\ processed_indexed_r = <<>>
    /\ spc = "idle"

InitGen ==
    /\ \E n \in 1..MaxN : q_c = 1..n
    /\ r_length \in 1..MaxR
    /\ k \in 0..MaxK
    /\ q_gram_counter = [i \in 0..k |-> IF i = 0 THEN q_c ELSE {}]
    /\ ref_sets = EmptyBag
    /\ counter_key = 0
    /\ q_grams_in_smallest_key = {}
    /\ try_counter = 0
    /\ gpc = "while"
    /\ IdleSwap
    /\ IdleEnc
    /\ IdleJacc

\* try_counter += 1 (saturating: only try_counter > 1 is ever tested)
Tried == IF try_counter < MaxTry THEN try_counter + 1 ELSE try_counter

\* Lines 73-77: the loop test and the start of a round.
StartRound ==
    /\ gpc = "while"
    /\ ~check_q_gram_availability(q_gram_counter, k)
    /\ counter_key' = MinKey(q_gram_counter)
    /\ q_grams_in_smallest_key' = q_gram_counter[MinKey(q_gram_counter)]
    /\ try_counter' = 0
    /\ gpc' = "try"
    /\ UNCHANGED <<q_c, r_length, k, q_gram_counter, ref_sets>>
    /\ UNCHANGED otherThanGen

\* Lines 73, 122-124: the loop test fails and the list is returned.
Return ==
    /\ gpc = "while"
    /\ check_q_gram_availability(q_gram_counter, k)
    /\ gpc' = "returned"
    /\ UNCHANGED <<q_c, r_length, k, q_gram_counter, ref_sets, counter_key,
                   q_grams_in_smallest_key, try_counter>>
    /\ UNCHANGED otherThanGen

\* The candidate qs_r is appended when it is new (and the counters updated
\* by new_counter), otherwise the round goes on with the next attempt.
\* Lines 119-120 assert the length of an accepted set.
Offer(qs_r, new_counter) ==
    IF IsNew(qs_r)
    THEN /\ ref_sets' = ref_sets (+) SetToBag({qs_r})
         /\ q_gram_counter' = new_counter
         /\ gpc' = IF Cardinality(qs_r) = r_length THEN "while" ELSE "AssertionError"
    ELSE UNCHANGED <<ref_sets, q_gram_counter, gpc>>

NoCandidate == UNCHANGED <<ref_sets, q_gram_counter, gpc>>

\* Lines 83-88: the candidates a retry can form, each as the pair of the
\* q-gram sampled from the smallest bucket and the q-grams sampled from
\* the next bucket. When the next bucket is too small, or r_length = 1, the
\* retry forms no candidate.
RetryCandidates ==
    IF r_length - 1 # 0 /\ Cardinality(q_gram_counter[counter_key + 1]) >= r_length - 1
    THEN Sample(q_grams_in_smallest_key, 1)
            \X Sample(q_gram_counter[counter_key + 1], r_length - 1)
    ELSE {}

\* Lines 82-95: a retry when the smallest bucket holds exactly r_length
\* q-grams: one q-gram of it and r_length - 1 of the next bucket.
OneFromSmallestKey ==
    /\ gpc = "try"
    /\ Cardinality(q_grams_in_smallest_key) >= r_length
    /\ Cardinality(q_grams_in_smallest_key) = r_length /\ Tried > 1
    /\ try_counter' = Tried
    /\ IF RetryCandidates # {}
       THEN \E candidate \in RetryCandidates :
               LET q_gram_from_smallest_key == candidate[1]
                   q_grams_from_next_key == candidate[2]
               IN  Offer(q_gram_from_smallest_key \cup q_grams_from_next_key,
                         update_q_gram_counter(
                             update_q_gram_counter(q_gram_counter, q_gram_from_smallest_key,
                                                   counter_key),
                             q_grams_from_next_key, counter_key + 1))
       ELSE NoCandidate
    /\ UNCHANGED <<q_c, r_length, k, counter_key, q_grams_in_smallest_key>>
    /\ UNCHANGED otherThanGen

\* Lines 96-104: r_length q-grams sampled from the smallest bucket.
SampleSmallestKey ==
    /\ gpc = "try"
    /\ Cardinality(q_grams_in_smallest_key) >= r_length
    /\ ~(Cardinality(q_grams_in_smallest_key) = r_length /\ Tried > 1)
    /\ try_counter' = Tried
    /\ \E random_q_grams \in Sample(q_grams_in_smallest_key, r_length) :
          Offer(random_q_grams,
                update_q_gram_counter(q_gram_counter, random_q_grams, counter_key))
    /\ UNCHANGED <<q_c, r_length, k, counter_key, q_grams_in_smallest_key>>
    /\ UNCHANGED otherThanGen

\* Lines 105-118: the smallest bucket is shorter than r_length: all of it,
\* filled up from the next bucket. When the next bucket is too small the
\* attempt forms no candidate.
FillFromNextKey ==
    /\ gpc = "try"
    /\ Cardinality(q_grams_in_smallest_key) < r_length
    /\ try_counter' = Tried
    /\ LET slack_elements == r_length - Cardinality(q_grams_in_smallest_key)
           next_filler_key == counter_key + 1
       IN  IF Cardinality(q_gram_counter[next_filler_key]) >= slack_elements
           THEN \E q_grams_from_next_key \in Sample(q_gram_counter[next_filler_key], slack_elements) :
                   Offer(q_grams_in_smallest_key \cup q_grams_from_next_key,
                         update_q_gram_counter(
                             update_q_gram_counter(q_gram_counter, q_grams_in_smallest_key,
                                                   counter_key),
                             q_grams_from_next_key, next_filler_key))
           ELSE NoCandidate
    /\ UNCHANGED <<q_c, r_length, k, counter_key, q_grams_in_smallest_key>>
    /\ UNCHANGED otherThanGen

NextGen ==
    \/ StartRound
    \/ Return
    \/ OneFromSmallestKey
    \/ SampleSmallestKey
    \/ FillFromNextKey

SpecGen == InitGen /\ [][NextGen]_vars

\* ------------------------------------------------------ ref_set_processor.py

\* A weighted q-gram is the tuple (q_gram, frequency).
QGramOf(x) == x[1]
FreqOf(x) == x[2]

RECURSIVE SumFreq(_)
SumFreq(S) ==
    IF S = {} THEN 0
    ELSE LET x == CHOOSE y \in S : TRUE IN FreqOf(x) + SumFreq(S \ {x})

\* Weights are quotients sum / len; they are kept as exact fractions with a
\* positive denominator and compared by cross-multiplication.
Weight(S) == [num |-> SumFreq(S), den |-> Cardinality(S)]
RLess(a, b) == a.num * b.den < b.num * a.den
REq(a, b) == a.num * b.den = b.num * a.den
RSub(a, b) == [num |-> a.num * b.den - b.num * a.den, den |-> a.den * b.den]
RAbs(a) == [num |-> IF a.num < 0 THEN 0 - a.num ELSE a.num, den |-> a.den]

\* Python values of different types are never equal: a set is not equal to
\* a tuple with the same elements. elems holds the elements of either.
PyTuple(items) == [type |-> "tuple", elems |-> items]
PySet(items) == [type |-> "set", elems |-> items]
PyEquals(a, b) == a.type = b.type /\ a.elems = b.elems
PyIn(x, collection) == \E y \in collection : PyEquals(x, y)

\* a weighing that gives the q-grams missing from the table the frequency 0
weigh_random_sets_DefaultZero(rsets, q_gram_freq) ==
    [index \in DOMAIN rsets |->
        LET qs_r_with_freq ==
                {<<q_gram, IF q_gram \in DOMAIN q_gram_freq THEN q_gram_freq[q_gram] ELSE 0>> :
                    q_gram \in rsets[index]}
        IN  [random_q_gram_set_with_freq |-> qs_r_with_freq,
             random_set_only |-> rsets[index],
             weighted_score |-> Weight(qs_r_with_freq)]]

\* weigh_random_sets: every q-gram with its frequency, 1 when the table
\* does not have it; the weighted score is the mean frequency.
weigh_random_sets(rsets, q_gram_freq) ==
    [index \in DOMAIN rsets |->
        LET qs_r_with_freq ==
                {<<q_gram, IF q_gram \in DOMAIN q_gram_freq THEN q_gram_freq[q_gram] ELSE 1>> :
                    q_gram \in rsets[index]}
        IN  [random_q_gram_set_with_freq |-> qs_r_with_freq,
             random_set_only |-> rsets[index],
             weighted_score |-> Weight(qs_r_with_freq)]]

\* The order of min(...) and max(...) with key (weighted_score, index).
KeyLeq(w, i, j) ==
    \/ RLess(w[i].weighted_score, w[j].weighted_score)
    \/ REq(w[i].weighted_score, w[j].weighted_score) /\ i <= j

\* a choice of the min set that does not look at the scores
MinKeyOf_LowestIndex(w) == CHOOSE i \in DOMAIN w : \A j \in DOMAIN w : i <= j

MinKeyOf(w) == CHOOSE i \in DOMAIN w : \A j \in DOMAIN w : KeyLeq(w, i, j)
MaxKeyOf(w) == CHOOSE i \in DOMAIN w : \A j \in DOMAIN w : KeyLeq(w, j, i)

\* The order of sorted(..., key = (frequency, q_gram)).
PairLeq(x, y) ==
    \/ FreqOf(x) < FreqOf(y)
    \/ FreqOf(x) = FreqOf(y) /\ QGramOf(x) <= QGramOf(y)

\* sorted(S, key = (frequency, q_gram)): position i holds the element with
\* exactly i elements of S at or below it.
SortedAscending(S) ==
    [i \in 1..Cardinality(S) |->
        CHOOSE x \in S : Cardinality({y \in S : PairLeq(y, x)}) = i]

\* sorted(S, key = (frequency, q_gram), reverse = True)
SortedDescending(S) ==
    [i \in 1..Cardinality(S) |->
        CHOOSE x \in S : Cardinality({y \in S : PairLeq(x, y)}) = i]

Elems(seq) == {seq[i] : i \in DOMAIN seq}

\* {new if element == old else element for element in S}
Replace(S, old, new) == {IF element = old THEN new ELSE element : element \in S}

\* an acceptance test without the comparison of the ranges
IsAcceptable_AnyRange(min_set, max_set, min_element, max_element) ==
    LET modified_min_value == Replace(min_set.random_q_gram_set_with_freq, min_element, max_element)
        modified_max_value == Replace(max_set.random_q_gram_set_with_freq, max_element, min_element)
    IN  /\ ~PyIn(PySet(modified_min_value), random_sets)
        /\ ~PyIn(PySet(modified_max_value), random_sets)

\* an acceptance test that lets a swap pass when the range stays as it is
IsAcceptable_NotWider(min_set, max_set, min_element, max_element) ==
    LET modified_min_value == Replace(min_set.random_q_gram_set_with_freq, min_element, max_element)
        modified_max_value == Replace(max_set.random_q_gram_set_with_freq, max_element, min_element)
        old_range == RSub(max_set.weighted_score, min_set.weighted_score)
        new_range == RAbs(RSub(Weight(modified_max_value), Weight(modified_min_value)))
    IN  /\ ~RLess(old_range, new_range)
        /\ ~PyIn(PySet(modified_min_value), random_sets)
        /\ ~PyIn(PySet(modified_max_value), random_sets)

\* Line 50: the range shrinks and neither modified set is in random_sets.
\* random_sets holds tuples and the modified values are sets. (Lines 42-47;
\* the locals are bound over singletons, one value each.)
IsAcceptable(min_set, max_set, min_element, max_element) ==
    \E modified_min_value \in
           {Replace(min_set.random_q_gram_set_with_freq, min_element, max_element)},
       modified_max_value \in
           {Replace(max_set.random_q_gram_set_with_freq, max_element, min_element)} :
    \E modified_min_value_weight \in {Weight(modified_min_value)},
       modified_max_value_weight \in {Weight(modified_max_value)},
       old_range \in {RSub(max_set.weighted_score, min_set.weighted_score)} :
    \E difference \in {RSub(modified_max_value_weight, modified_min_value_weight)} :
    \E new_range \in {RAbs(difference)} :
        /\ RLess(new_range, old_range)
        /\ ~PyIn(PySet(modified_min_value), random_sets)
        /\ ~PyIn(PySet(modified_max_value), random_sets)

\* a scan that does not skip the min elements the max set already has
AcceptedAt_NoSkip(min_set, max_set) ==
    LET sorted_min_set == SortedAscending(min_set.random_q_gram_set_with_freq)
        sorted_max_set == SortedDescending(max_set.random_q_gram_set_with_freq)
    IN  {p \in (DOMAIN sorted_min_set) \X (DOMAIN sorted_max_set) :
            /\ sorted_max_set[p[2]] \notin Elems(sorted_min_set)
            /\ FreqOf(sorted_max_set[p[2]]) > FreqOf(sorted_min_set[p[1]])
            /\ IsAcceptable(min_set, max_set, sorted_min_set[p[1]], sorted_max_set[p[2]])}

\* Lines 37-50: the positions <<i, j>> of the scan (i in sorted_min_set, j in
\* sorted_max_set) at which a swap is accepted.
AcceptedAt(min_set, max_set) ==
    LET sorted_min_set == SortedAscending(min_set.random_q_gram_set_with_freq)
        sorted_max_set == SortedDescending(max_set.random_q_gram_set_with_freq)
    IN  {p \in (DOMAIN sorted_min_set) \X (DOMAIN sorted_max_set) :
            /\ sorted_min_set[p[1]] \notin Elems(sorted_max_set)
            /\ sorted_max_set[p[2]] \notin Elems(sorted_min_set)
            /\ FreqOf(sorted_max_set[p[2]]) > FreqOf(sorted_min_set[p[1]])
            /\ IsAcceptable(min_set, max_set, sorted_min_set[p[1]], sorted_max_set[p[2]])}

\* The scan takes the first of them: min elements outside, max elements inside.
FirstOf(positions) ==
    CHOOSE p \in positions : \A o \in positions :
        p[1] < o[1] \/ (p[1] = o[1] /\ p[2] <= o[2])

\* an update that stores the sum of the frequencies as the score
WeightedSet_Sum(with_freq) ==
    [random_q_gram_set_with_freq |-> with_freq,
     random_set_only |-> {QGramOf(x) : x \in with_freq},
     weighted_score |-> [num |-> SumFreq(with_freq), den |-> 1]]

\* Lines 62-70: the attributes of a modified reference set
WeightedSet(with_freq) ==
    [random_q_gram_set_with_freq |-> with_freq,
     random_set_only |-> {QGramOf(x) : x \in with_freq},
     weighted_score |-> Weight(with_freq)]

Bump(n) == IF n < MaxMods THEN n + 1 ELSE n

\* swaps_tracker[key] += 1, from 0 when the key is new
Tracked(tracker, key) ==
    [i \in DOMAIN tracker \cup {key} |->
        IF i = key THEN Bump(IF key \in DOMAIN tracker THEN tracker[key] ELSE 0)
        ELSE tracker[i]]

\* The generator's variables while another program runs.
IdleGen ==
    /\ q_c = {}
    /\ r_length = 0
    /\ k = 0
    /\ q_gram_counter = <<>>
    /\ ref_sets = EmptyBag
    /\ counter_key = 0
    /\ q_grams_in_smallest_key = {}
    /\ try_counter = 0
    /\ gpc = "idle"

\* The reference-set files: 1..MaxM rows, pairwise distinct and of one
\* length, as the generator writes them; row i is at index i.
ReferenceSetFiles ==
    UNION {{rows \in [0..(m - 1) -> Sample(1..MaxQ, len)] :
               \A i, j \in 0..(m - 1) : i # j => rows[i] # rows[j]} :
           <<m, len>> \in (1..MaxM) \X (1..MaxQ)}

\* The frequency tables: a table may lack q-grams (weighing gives them 1),
\* here the first ones. The swapping reads q-grams only through set membership
\* and through the order of (frequency, q-gram), so the q-grams are numbered
\* in that order: frequencies do not decrease with the number.
FrequencyTables ==
    UNION {{table \in [(absent + 1)..MaxQ -> 1..MaxF] :
               \A q1, q2 \in DOMAIN table : q1 <= q2 => table[q1] <= table[q2]} :
           absent \in 0..MaxQ}

InitSwap ==
    /\ init_random_sets \in ReferenceSetFiles
    /\ frequent_q_grams \in FrequencyTables
    /\ weighed_random_sets = <<>>
    /\ random_sets = {}
    /\ swaps_tracker = <<>>
    /\ successful_modifications = 0
    /\ stop_processing = FALSE
    /\ min_element_index = Unbound
    /\ max_element_index = Unbound
    /\ processed_indexed_r = <<>>
    /\ spc = "start"
    /\ IdleGen
    /\ IdleEnc
    /\ IdleJacc

\* generate_random_q_gram_sets, lines 170-171.
WeighSets ==
    /\ spc = "start"
    /\ weighed_random_sets' = weigh_random_sets(init_random_sets, frequent_q_grams)
    /\ spc' = "weighed"
    /\ UNCHANGED <<processed_indexed_r, init_random_sets, frequent_q_grams, random_sets, swaps_tracker,
                   successful_modifications, stop_processing, min_element_index,
                   max_element_index>>
    /\ UNCHANGED otherThanSwap

\* frequency_based_rank_swapping, lines 22-25.
BeginSwapping ==
    /\ spc = "weighed"
    /\ random_sets' = {PyTuple(weighed_random_sets[i].random_q_gram_set_with_freq) :
                          i \in DOMAIN weighed_random_sets}
    /\ swaps_tracker' = <<>>
    /\ successful_modifications' = 0
    /\ stop_processing' = FALSE
    /\ spc' = "swapping"
    /\ UNCHANGED <<processed_indexed_r, init_random_sets, frequent_q_grams, weighed_random_sets,
                   min_element_index, max_element_index>>
    /\ UNCHANGED otherThanSwap

\* Lines 27-82 of one pass of the loop in which a swap is accepted.
\* The locals of the pass are bound over singletons, one value each.
AcceptSwap ==
    /\ spc = "swapping"
    /\ ~stop_processing
    /\ \E min_key \in {MinKeyOf(weighed_random_sets)},
          max_key \in {MaxKeyOf(weighed_random_sets)} :
       \E min_set \in {weighed_random_sets[min_key]},
          max_set \in {weighed_random_sets[max_key]} :
       \E sorted_min_set \in {SortedAscending(min_set.random_q_gram_set_with_freq)},
          sorted_max_set \in {SortedDescending(max_set.random_q_gram_set_with_freq)},
          positions \in {AcceptedAt(min_set, max_set)} :
           /\ positions # {}
           /\ \E at \in {FirstOf(positions)} :
              \E min_element \in {sorted_min_set[at[1]]},
                 max_element \in {sorted_max_set[at[2]]} :
              \E modified_min_value \in
                     {Replace(min_set.random_q_gram_set_with_freq, min_element, max_element)},
                 modified_max_value \in
                     {Replace(max_set.random_q_gram_set_with_freq, max_element, min_element)} :
                  /\ swaps_tracker' = Tracked(Tracked(swaps_tracker, min_key), max_key)
                  /\ max_element_index' = at[2] - 1
                  /\ IF Cardinality(modified_min_value)
                           = Cardinality(min_set.random_q_gram_set_with_freq)
                     THEN /\ weighed_random_sets' =
                                 [[weighed_random_sets
                                     EXCEPT ![min_key] = WeightedSet(modified_min_value)]
                                     EXCEPT ![max_key] = WeightedSet(modified_max_value)]
                          /\ successful_modifications' = Bump(successful_modifications)
                          /\ min_element_index' = at[1]
                          /\ spc' = "swapping"
                     ELSE /\ spc' = "AssertionError"
                          /\ min_element_index' = at[1] - 1
                          /\ UNCHANGED <<weighed_random_sets, successful_modifications>>
    /\ UNCHANGED <<processed_indexed_r, init_random_sets, frequent_q_grams, random_sets, stop_processing>>
    /\ UNCHANGED otherThanSwap

\* Lines 27-89 of the pass in which the scan accepts nothing. Line 85 reads
\* max_element_index, which line 39 sets only for a min element that is not
\* in the max set; otherwise it has the value an earlier pass left, or none.
Stall ==
    /\ spc = "swapping"
    /\ ~stop_processing
    /\ \E min_key \in {MinKeyOf(weighed_random_sets)},
          max_key \in {MaxKeyOf(weighed_random_sets)} :
       \E min_set \in {weighed_random_sets[min_key]},
          max_set \in {weighed_random_sets[max_key]} :
       \E sorted_min_set \in {SortedAscending(min_set.random_q_gram_set_with_freq)},
          sorted_max_set \in {SortedDescending(max_set.random_q_gram_set_with_freq)} :
       \E scanned \in {\E i \in DOMAIN sorted_min_set :
                          sorted_min_set[i] \notin Elems(sorted_max_set)} :
       \E index_read \in {IF scanned THEN Len(sorted_max_set) ELSE max_element_index} :
           /\ AcceptedAt(min_set, max_set) = {}
           /\ min_element_index' = Len(sorted_min_set)
           /\ max_element_index' = index_read
           /\ IF index_read = Unbound
              THEN spc' = "UnboundLocalError" /\ UNCHANGED stop_processing
              ELSE IF Len(sorted_max_set) # index_read
                   THEN spc' = "AssertionError" /\ UNCHANGED stop_processing
                   ELSE spc' = "swapping" /\ stop_processing' = TRUE
    /\ UNCHANGED <<processed_indexed_r, init_random_sets, frequent_q_grams, weighed_random_sets, random_sets,
                   swaps_tracker, successful_modifications>>
    /\ UNCHANGED otherThanSwap

\* Lines 91-95: the statistics are printed and the pool is returned.
FinishSwapping ==
    /\ spc = "swapping"
    /\ stop_processing
    /\ spc' = "swapped"
    /\ UNCHANGED <<processed_indexed_r, init_random_sets, frequent_q_grams, weighed_random_sets, random_sets,
                   swaps_tracker, successful_modifications, stop_processing,
                   min_element_index, max_element_index>>
    /\ UNCHANGED otherThanSwap

\* The pool without the frequencies, as lines 215-218 leave it.
PoolOf(w) == [i \in DOMAIN w |-> w[i].random_set_only]

\* Lines 190-198 with do_swapping set: the dictionary that
\* frequency_based_rank_swapping returns is unpacked into two names, which
\* takes exactly two keys; the first name is then bound to the key 0, and
\* line 197 calls items() on it. No pool is bound to processed_indexed_r.
UnpackSwapped ==
    /\ spc = "swapped"
    /\ spc' = IF Cardinality(DOMAIN weighed_random_sets) = 2
              THEN "AttributeError" ELSE "ValueError"
    /\ UNCHANGED <<processed_indexed_r, init_random_sets, frequent_q_grams, weighed_random_sets, random_sets,
                   swaps_tracker, successful_modifications, stop_processing,
                   min_element_index, max_element_index>>
    /\ UNCHANGED otherThanSwap

\* Lines 187, 209-220 with do_swapping not set: processed_indexed_r is the
\* dictionary of the weighed sets, each of its values is replaced by the
\* q-gram set, and it is returned. (It is the object weighed_random_sets
\* names, a name that is not read again.)
ReturnUnswapped ==
    /\ spc = "weighed"
    /\ processed_indexed_r' = PoolOf(weighed_random_sets)
    /\ spc' = "returned"
    /\ UNCHANGED <<init_random_sets, frequent_q_grams, weighed_random_sets, random_sets, swaps_tracker,
                   successful_modifications, stop_processing, min_element_index,
                   max_element_index>>
    /\ UNCHANGED otherThanSwap

\* do_swapping is read at line 187 only: the step taken from "weighed" is
\* BeginSwapping when it is set and ReturnUnswapped when it is not.
NextSwap ==
    \/ WeighSets
    \/ BeginSwapping
    \/ AcceptSwap
    \/ Stall
    \/ FinishSwapping
    \/ UnpackSwapped
    \/ ReturnUnswapped

SpecSwap == InitSwap /\ [][NextSwap]_vars

\* The reference-set processor with its scheduling: a sequential program
\* that keeps running while it has a step to take.
FairSpecSwap == SpecSwap /\ WF_vars(NextSwap)

\* ---------------------------------------------------------- data_encoder.py

\* a count that should be the size of the intersection
q_gram_jacc_sim_FirstSet(set1, set2) ==
    [num |-> Cardinality(set1), den |-> Cardinality(set1 \cup set2)]

\* |intersection| / |union|, as an exact fraction
q_gram_jacc_sim(set1, set2) ==
    [num |-> Cardinality(set1 \cap set2), den |-> Cardinality(set1 \cup set2)]

Zero == [num |-> 0, den |-> 1]
One == [num |-> 1, den |-> 1]

Min(a, b) == IF a <= b THEN a ELSE b
MinOf(S) == CHOOSE x \in S : \A y \in S : x <= y

\* The signature of a record that has none yet, its ranking of
\* (index, similarity) pairs, and its bit array.
NoSignature == [kind |-> "none", value |-> <<>>]
RankingOf(ranking) == [kind |-> "ranking", value |-> ranking]
BitArrayOf(bits) == [kind |-> "bitarray", value |-> bits]

\* sorted(record_sim_store.items(), key = similarity, reverse = True): the
\* sort is stable, so equal similarities stay in the order of the indices.
RECURSIVE SortedBySimilarity(_, _)
SortedBySimilarity(indices, sim) ==
    IF indices = {} THEN <<>>
    ELSE LET first == CHOOSE i \in indices : \A j \in indices :
                          \/ RLess(sim[j], sim[i])
                          \/ REq(sim[j], sim[i]) /\ i <= j
         IN  <<(<<first, sim[first]>>)>> \o SortedBySimilarity(indices \ {first}, sim)

\* a ranking that keeps the reference sets of similarity 0
InitIntSignature_KeepAll(record_q_gram, indexed_r, init_sign_length) ==
    LET record_sim_store == [qs_r_index \in DOMAIN indexed_r |->
                                q_gram_jacc_sim(record_q_gram, indexed_r[qs_r_index])]
        sorted_sim_store == SortedBySimilarity(DOMAIN indexed_r, record_sim_store)
    IN  SubSeq(sorted_sim_store, 1, Min(init_sign_length, Cardinality(DOMAIN indexed_r)))

\* Lines 167-180 for one record: the reference sets that intersect the
\* record, by descending similarity, cut to init_sign_length.
InitIntSignature(record_q_gram, indexed_r, init_sign_length) ==
    LET non_zero == {qs_r_index \in DOMAIN indexed_r :
                        indexed_r[qs_r_index] \cap record_q_gram # {}}
        record_sim_store == [qs_r_index \in non_zero |->
                                q_gram_jacc_sim(record_q_gram, indexed_r[qs_r_index])]
        sorted_sim_store == SortedBySimilarity(non_zero, record_sim_store)
    IN  SubSeq(sorted_sim_store, 1, Min(init_sign_length, Cardinality(non_zero)))

\* rankings that are not cut to init_sign_length
gen_init_int_signature_NoCut(record_store, indexed_r, init_sign_length) ==
    LET store == [rec_id \in DOMAIN record_store |->
                     [record_q_gram |-> record_store[rec_id].record_q_gram,
                      signature |-> RankingOf(InitIntSignature(
                          record_store[rec_id].record_q_gram, indexed_r,
                          Cardinality(DOMAIN indexed_r)))]]
    IN  [record_store |-> store,
         min_1_bits |-> MinOf({Len(store[rec_id].signature.value) : rec_id \in DOMAIN store})]

\* gen_init_int_signature: the updated record store and min_1_bits
gen_init_int_signature(record_store, indexed_r, init_sign_length) ==
    LET store == [rec_id \in DOMAIN record_store |->
                     [record_q_gram |-> record_store[rec_id].record_q_gram,
                      signature |-> RankingOf(InitIntSignature(
                          record_store[rec_id].record_q_gram, indexed_r, init_sign_length))]]
    IN  [record_store |-> store,
         min_1_bits |-> MinOf({Len(store[rec_id].signature.value) : rec_id \in DOMAIN store})]

\* a bit array in which each position is set one place too early
generate_bit_array_signature_Shifted(bit_array_length, positions) ==
    [pos \in 1..bit_array_length |-> IF pos \in positions THEN 1 ELSE 0]

\* generate_bit_array_signature: the positions are set to 1 (bit pos is at pos + 1)
generate_bit_array_signature(bit_array_length, positions) ==
    [pos \in 1..bit_array_length |-> IF (pos - 1) \in positions THEN 1 ELSE 0]

\* a cut that takes every entry of the ranking
SignaturePositions_All(record_sim_store, n1_bits) ==
    {record_sim_store[i][1] : i \in 1..Len(record_sim_store)}

\* Line 223: the indices of the first n1_bits entries of the ranking
SignaturePositions(record_sim_store, n1_bits) ==
    {record_sim_store[i][1] : i \in 1..Min(n1_bits, Len(record_sim_store))}

\* extract_signatures: the updated record store; line 222 asserts that every
\* ranking has n1_bits entries.
extract_signatures(indexed_ref_sets, record_store, n1_bits) ==
    LET qs_r_count == Cardinality(DOMAIN indexed_ref_sets)
    IN  [failed |-> \E rec_id \in DOMAIN record_store :
                        Len(record_store[rec_id].signature.value) < n1_bits,
         record_store |->
            [rec_id \in DOMAIN record_store |->
                [record_q_gram |-> record_store[rec_id].record_q_gram,
                 signature |-> BitArrayOf(generate_bit_array_signature(qs_r_count,
                     SignaturePositions(record_store[rec_id].signature.value, n1_bits)))]]]

\* a budget taken from the first database alone
NumOneBits_FirstOnly(smallest1, smallest2) == smallest1

\* Line 287
NumOneBits(smallest1, smallest2) == Min(smallest1, smallest2)

\* The reference sets handed to the encoder: rows of a reference-set file.
EncoderPools ==
    UNION {{rows \in [0..(m - 1) -> Sample(1..MaxU, len)] :
               \A i, j \in 0..(m - 1) : i # j => rows[i] # rows[j]} :
           <<m, len>> \in (1..MaxM) \X (1..MaxU)}

RECURSIVE CodeOf(_)
CodeOf(qs) == IF qs = {} THEN 0
              ELSE LET q == CHOOSE x \in qs : TRUE IN 2 ^ (q - 1) + CodeOf(qs \ {q})

\* The record q-gram sets of a database, as generate_database_q_gram_sets
\* builds them: 1..MaxRecs records with non-empty q-gram sets. The records
\* are handled one by one and independently of their identifiers, so they
\* are listed in one order only.
Databases ==
    UNION {{db \in [1..n -> (SUBSET (1..MaxU)) \ {{}}] :
               \A i, j \in 1..n : i <= j => CodeOf(db[i]) <= CodeOf(db[j])} :
           n \in 1..MaxRecs}

Records(db) == [rec_id \in DOMAIN db |-> [record_q_gram |-> db[rec_id], signature |-> NoSignature]]

InitEnc ==
    /\ reference_q_gram_sets \in EncoderPools
    /\ \E db \in Databases : data_dic1 = Records(db)
    /\ \E db \in Databases : data_dic2 = Records(db)
    /\ enc_k \in 0..MaxK
    /\ initial_ls = 0
    /\ input1_smallest_k = Unbound
    /\ input2_smallest_k = Unbound
    /\ num_1_bits = Unbound
    /\ epc = "start"
    /\ IdleGen
    /\ IdleSwap
    /\ IdleJacc

\* Lines 269-284: the length of the initial signatures from the shortest
\* record q-gram set of both databases, and the rankings of the first database.
RankDatabase1 ==
    /\ epc = "start"
    /\ LET min_q_gram_length ==
               MinOf({Cardinality(data_dic1[r].record_q_gram) : r \in DOMAIN data_dic1}
                     \cup {Cardinality(data_dic2[r].record_q_gram) : r \in DOMAIN data_dic2})
           ls == (enc_k + 1) * min_q_gram_length
           got == gen_init_int_signature(data_dic1, reference_q_gram_sets, ls)
       IN  /\ initial_ls' = ls
           /\ data_dic1' = got.record_store
           /\ input1_smallest_k' = got.min_1_bits
    /\ epc' = "ranked1"
    /\ UNCHANGED <<reference_q_gram_sets, data_dic2, enc_k, input2_smallest_k, num_1_bits>>
    /\ UNCHANGED otherThanEnc

\* Line 285: the rankings of the second database.
RankDatabase2 ==
    /\ epc = "ranked1"
    /\ LET got == gen_init_int_signature(data_dic2, reference_q_gram_sets, initial_ls)
       IN  /\ data_dic2' = got.record_store
           /\ input2_smallest_k' = got.min_1_bits
    /\ epc' = "ranked2"
    /\ UNCHANGED <<reference_q_gram_sets, data_dic1, enc_k, initial_ls, input1_smallest_k,
                   num_1_bits>>
    /\ UNCHANGED otherThanEnc

\* What line 291 and line 294 do with the dictionary extract_signatures
\* returns: it is unpacked into two names, which takes exactly two keys.
Unpacked(record_store, then) ==
    IF Cardinality(DOMAIN record_store) = 2 THEN then ELSE "ValueError"

\* Lines 287-291: the number of 1-bits and the bit arrays of the first database.
EncodeDatabase1 ==
    /\ epc = "ranked2"
    /\ LET n1_bits == NumOneBits(input1_smallest_k, input2_smallest_k)
           got == extract_signatures(reference_q_gram_sets, data_dic1, n1_bits)
       IN  /\ num_1_bits' = n1_bits
           /\ IF got.failed
              THEN epc' = "AssertionError" /\ UNCHANGED data_dic1
              ELSE epc' = Unpacked(data_dic1, "encoded1") /\ data_dic1' = got.record_store
    /\ UNCHANGED <<reference_q_gram_sets, data_dic2, enc_k, initial_ls, input1_smallest_k,
                   input2_smallest_k>>
    /\ UNCHANGED otherThanEnc

\* an encoding of the second database with as many 1-bits as its own
\* shortest ranking has
EncodeDatabase2_OwnBudget ==
    /\ epc = "encoded1"
    /\ LET got == extract_signatures(reference_q_gram_sets, data_dic2, input2_smallest_k)
       IN  IF got.failed
           THEN epc' = "AssertionError" /\ UNCHANGED data_dic2
           ELSE epc' = Unpacked(data_dic2, "encoded2") /\ data_dic2' = got.record_store
    /\ UNCHANGED <<reference_q_gram_sets, data_dic1, enc_k, initial_ls, input1_smallest_k,
                   input2_smallest_k, num_1_bits>>
    /\ UNCHANGED otherThanEnc

\* Line 294: the bit arrays of the second database.
EncodeDatabase2 ==
    /\ epc = "encoded1"
    /\ LET got == extract_signatures(reference_q_gram_sets, data_dic2, num_1_bits)
       IN  IF got.failed
           THEN epc' = "AssertionError" /\ UNCHANGED data_dic2
           ELSE epc' = Unpacked(data_dic2, "encoded2") /\ data_dic2' = got.record_store
    /\ UNCHANGED <<reference_q_gram_sets, data_dic1, enc_k, initial_ls, input1_smallest_k,
                   input2_smallest_k, num_1_bits>>
    /\ UNCHANGED otherThanEnc

NextEnc ==
    \/ RankDatabase1
    \/ RankDatabase2
    \/ EncodeDatabase1
    \/ EncodeDatabase2

SpecEnc == InitEnc /\ [][NextEnc]_vars

\* One call of gen_init_int_signature: a store of one record, whose q-grams
\* are among the first three, three distinct reference sets of two q-grams
\* each, and any length of the initial signature.
RankPools ==
    {rows \in [0..2 -> Sample(1..MaxS, 2)] :
        \A i, j \in 0..2 : i # j => rows[i] # rows[j]}

InitRank ==
    /\ reference_q_gram_sets \in RankPools
    /\ \E qs \in (SUBSET (1..3)) \ {{}} : data_dic1 = Records(<<qs>>)
    /\ data_dic2 = <<>>
    /\ enc_k = 0
    /\ initial_ls \in 0..3
    /\ input1_smallest_k = Unbound
    /\ input2_smallest_k = Unbound
    /\ num_1_bits = Unbound
    /\ epc = "called"
    /\ IdleGen
    /\ IdleSwap
    /\ IdleJacc

\* Lines 166-183: the rankings are stored and the smallest length is returned.
RankRecords ==
    /\ epc = "called"
    /\ LET got == gen_init_int_signature(data_dic1, reference_q_gram_sets, initial_ls)
       IN  /\ data_dic1' = got.record_store
           /\ input1_smallest_k' = got.min_1_bits
    /\ epc' = "returned"
    /\ UNCHANGED <<reference_q_gram_sets, data_dic2, enc_k, initial_ls, input2_smallest_k,
                   num_1_bits>>
    /\ UNCHANGED otherThanEnc

NextRank == RankRecords

SpecRank == InitRank /\ [][NextRank]_vars

\* One call of q_gram_jacc_sim with two non-empty q-gram sets.
InitJacc ==
    /\ q_gram_set1 \in (SUBSET (1..MaxQ)) \ {{}}
    /\ q_gram_set2 \in (SUBSET (1..MaxQ)) \ {{}}
    /\ jacc_sim = Zero
    /\ jpc = "called"
    /\ IdleGen
    /\ IdleSwap
    /\ IdleEnc

\* Lines 142-149: the similarity, the assertion of line 147 and the return.
JaccSim ==
    /\ jpc = "called"
    /\ jacc_sim' = q_gram_jacc_sim(q_gram_set1, q_gram_set2)
    /\ jpc' = IF ~RLess(jacc_sim', Zero) /\ ~RLess(One, jacc_sim')
              THEN "returned" ELSE "AssertionError"
    /\ UNCHANGED <<q_gram_set1, q_gram_set2>>
    /\ UNCHANGED otherThanJacc

NextJacc == JaccSim

SpecJacc == InitJacc /\ [][NextJacc]_vars

\* A run of the generator or a run of the reference-set processor.
SpecGenSwap == (InitGen \/ InitSwap) /\ [][NextGen \/ NextSwap]_vars

\* The generator with its scheduling: the loops keep running, and a sample
\* that can be drawn again and again is drawn at some time.
FairSpecGen ==
    /\ SpecGen
    /\ WF_vars(NextGen)
    /\ SF_vars(NextGen /\ ref_sets' # ref_sets)

\* ================================================================ claims

\* number of accepted reference sets that contain the q-gram
Occurrences(q_gram) ==
    LET holders == {s \in BagToSet(ref_sets) : q_gram \in s}
    IN  BagCardinality([s \in holders |-> ref_sets[s]])

\* C1: when ref_set_generator returns, every q-gram of the alphabet is a
\* member of at least k of the returned reference sets.
C1_Coverage == gpc = "returned" => \A q_gram \in q_c : Occurrences(q_gram) >= k

C1_Witness ==
    /\ gpc = "returned"
    /\ k = 2
    /\ Cardinality(q_c) >= 3
    /\ \E q_gram \in q_c : Occurrences(q_gram) > k

\* C2: at every point of the generation the accepted reference sets are
\* pairwise distinct: no set is in the list twice.
C2_PairwiseDistinct == \A s \in BagToSet(ref_sets) : CopiesIn(s, ref_sets) = 1

\* a candidate was rejected as a duplicate and a later one of the round accepted
C2_Witness ==
    /\ gpc = "while"
    /\ try_counter >= 2
    /\ BagCardinality(ref_sets) >= 3

\* C3: the pool handed to the swapping is pairwise distinct, and the member
\* sets of the pool stay pairwise distinct after every accepted swap.
C3_UniqueAfterSwaps ==
    spc \in {"swapping", "swapped"} =>
        \A i, j \in DOMAIN weighed_random_sets :
            i # j => weighed_random_sets[i].random_set_only
                         # weighed_random_sets[j].random_set_only

\* C4: every reference set has r_length members at every stage: each set the
\* generator accepts has r_length q-grams, and after every accepted swap each
\* set of the pool has as many members (in both of its views) as its row had.
C4_Cardinality ==
    /\ \A s \in BagToSet(ref_sets) : Cardinality(s) = r_length
    /\ \A i \in DOMAIN weighed_random_sets :
          /\ Cardinality(weighed_random_sets[i].random_q_gram_set_with_freq)
                = Cardinality(init_random_sets[i])
          /\ Cardinality(weighed_random_sets[i].random_set_only)
                = Cardinality(init_random_sets[i])

\* two swaps were accepted
C4_Witness ==
    /\ successful_modifications = 2
    /\ \E i \in DOMAIN weighed_random_sets :
          weighed_random_sets[i].random_set_only # init_random_sets[i]

\* max - min of the weighted scores of a pool
Spread(w) == RSub(w[MaxKeyOf(w)].weighted_score, w[MinKeyOf(w)].weighted_score)

\* C5: the spread of the weighted scores of the pool after an accepted swap
\* is never larger than the spread before that swap.
C5_SpreadNeverGrows ==
    [][(spc = "swapping" /\ weighed_random_sets' # weighed_random_sets)
          => ~RLess(Spread(weighed_random_sets), Spread(weighed_random_sets'))]_vars

\* after two accepted swaps the spread is smaller than that of the weighed file
C5_Witness ==
    /\ successful_modifications = 2
    /\ RLess(Spread(weighed_random_sets),
             Spread(weigh_random_sets(init_random_sets, frequent_q_grams)))

\* number of 1-bits of a bit array
Ones(bits) == Cardinality({pos \in DOMAIN bits : bits[pos] = 1})

\* the records of both databases
AllRecords ==
    {data_dic1[rec_id] : rec_id \in DOMAIN data_dic1}
        \cup {data_dic2[rec_id] : rec_id \in DOMAIN data_dic2}

\* C6: the final signature of every record of either database is a bit array
\* of length m (the number of reference sets) with exactly num_1_bits 1-bits.
C6_UniformHammingWeight ==
    \A rec \in AllRecords :
        rec.signature.kind = "bitarray" =>
            /\ Len(rec.signature.value) = Cardinality(DOMAIN reference_q_gram_sets)
            /\ Ones(rec.signature.value) = num_1_bits

\* both databases are encoded, with two 1-bits, and not all records alike
C6_Witness ==
    /\ epc = "encoded2"
    /\ num_1_bits = 2
    /\ \E r1 \in DOMAIN data_dic1, r2 \in DOMAIN data_dic2 :
          data_dic1[r1].signature.value # data_dic2[r2].signature.value

\* length of the intermediate signature of a record: the number of reference
\* sets that intersect its q-gram set, at most initial_ls
IntermediateLength(rec) ==
    Min(initial_ls,
        Cardinality({i \in DOMAIN reference_q_gram_sets :
                        reference_q_gram_sets[i] \cap rec.record_q_gram # {}}))

\* C7: num_1_bits is the smallest length of an intermediate signature over
\* the records of both databases together, and the signatures of both
\* databases are cut to this one value.
C7_BitBudget ==
    num_1_bits # Unbound =>
        /\ num_1_bits = MinOf({IntermediateLength(rec) : rec \in AllRecords})
        /\ \A r1 \in DOMAIN data_dic1, r2 \in DOMAIN data_dic2 :
              (data_dic1[r1].signature.kind = "bitarray"
                  /\ data_dic2[r2].signature.kind = "bitarray")
              => Ones(data_dic1[r1].signature.value) = Ones(data_dic2[r2].signature.value)

\* the first database has no signature shorter than 3, the second one of 2
C7_Witness ==
    /\ epc = "encoded2"
    /\ input1_smallest_k = 3
    /\ input2_smallest_k = 2
    /\ num_1_bits = 2

\* C8: for non-empty q-gram sets q_gram_jacc_sim is |A n B| / |A u B|, lies in
\* [0, 1], is 1 for equal sets and 0 for disjoint sets.
C8_JaccardBounds ==
    /\ jpc # "AssertionError"
    /\ jpc = "returned" =>
          /\ jacc_sim.num * Cardinality(q_gram_set1 \cup q_gram_set2)
                = Cardinality(q_gram_set1 \cap q_gram_set2) * jacc_sim.den
          /\ ~RLess(jacc_sim, Zero)
          /\ ~RLess(One, jacc_sim)
          /\ q_gram_set1 = q_gram_set2 => REq(jacc_sim, One)
          /\ q_gram_set1 \cap q_gram_set2 = {} => REq(jacc_sim, Zero)

\* two sets that overlap without being equal
C8_Witness ==
    /\ jpc = "returned"
    /\ q_gram_set1 \cap q_gram_set2 # {}
    /\ q_gram_set1 # q_gram_set2
    /\ RLess(Zero, jacc_sim)
    /\ RLess(jacc_sim, One)

\* C9: the main loop of the generator always terminates: no state is reached
\* in which every attempt of the round is rejected or forms no candidate.
\* (With try_counter at MaxTry a rejected attempt changes nothing, so the
\* state repeats for ever when no attempt can change it.)
C9_NeverSpins ==
    ~(gpc = "try" /\ try_counter = MaxTry /\ ~ENABLED <<NextGen>>_vars)

\* C10: for the alphabet {"ab", "ba"} with k = 2 and r_length = 1 the
\* generator completes with 4 sets: {"ab"} and {"ba"}, each of them twice.
C10_TwoSymbolScenario ==
    (q_c = {1, 2} /\ k = 2 /\ r_length = 1)
        => <>(gpc = "returned" /\ ref_sets = [s \in {{1}, {2}} |-> 2])

\* The scenario of C11: the q-grams jo, oh, hn, xx, yy, zz, ww are numbered
\* 1..7; the record is {jo, oh, hn}, the reference sets are {jo, xx},
\* {oh, yy}, {zz, ww}, and the initial signature has room for two entries.
C11_Scenario ==
    /\ epc = "returned"
    /\ DOMAIN data_dic1 = {1}
    /\ data_dic1[1].record_q_gram = {1, 2, 3}
    /\ reference_q_gram_sets = (0 :> {1, 4} @@ 1 :> {2, 5} @@ 2 :> {6, 7})
    /\ initial_ls >= 2

\* The ranking of the scenario holds the first two reference sets, each with
\* similarity sim, and not the third, whose similarity is 0.
C11_Ranked(sim) ==
    LET ranking == data_dic1[1].signature.value
    IN  /\ {ranking[i][1] : i \in DOMAIN ranking} = {0, 1}
        /\ \A i \in DOMAIN ranking : REq(ranking[i][2], sim)
        /\ REq(q_gram_jacc_sim(data_dic1[1].record_q_gram, reference_q_gram_sets[2]), Zero)

\* C11 as the spec has it: the similarities of the record {jo, oh, hn} with
\* {jo, xx}, {oh, yy}, {zz, ww} are 1/3, 1/3 and 0, and the third reference set
\* is not in the ranking.
C11_ScenarioThirds == C11_Scenario => C11_Ranked([num |-> 1, den |-> 3])

\* C11 amended: the similarities are 1/4, 1/4 and 0 (one common q-gram of
\* four in the union), and the third reference set is not in the ranking.
C11_ScenarioQuarters == C11_Scenario => C11_Ranked([num |-> 1, den |-> 4])

C11_Witness == C11_Scenario /\ Len(data_dic1[1].signature.value) = 2

\* the lowest index among the sets of the pool whose weighted score is extreme
LowestMin(w) ==
    CHOOSE i \in DOMAIN w :
        /\ \A j \in DOMAIN w : ~RLess(w[j].weighted_score, w[i].weighted_score)
        /\ \A j \in DOMAIN w : REq(w[j].weighted_score, w[i].weighted_score) => i <= j

LowestMax(w) ==
    CHOOSE i \in DOMAIN w :
        /\ \A j \in DOMAIN w : ~RLess(w[i].weighted_score, w[j].weighted_score)
        /\ \A j \in DOMAIN w : REq(w[j].weighted_score, w[i].weighted_score) => i <= j

\* C12: in every pass the swapping works on a set with the smallest weighted
\* score and a set with the largest weighted score of the pool, each the one
\* of lowest index among those that tie: the sets an accepted swap changes
\* are these two.
C12_LowestIndexExtremes ==
    [][(spc = "swapping" /\ weighed_random_sets' # weighed_random_sets)
          => {i \in DOMAIN weighed_random_sets :
                 weighed_random_sets'[i] # weighed_random_sets[i]}
                = {LowestMin(weighed_random_sets), LowestMax(weighed_random_sets)}]_vars

\* a record whose q-gram set intersects no reference set
Unmatched(rec) ==
    \A i \in DOMAIN reference_q_gram_sets :
        reference_q_gram_sets[i] \cap rec.record_q_gram = {}

\* C13: when a record of either database intersects no reference set, the
\* run yields no value for num_1_bits and no final signature.
C13_FailsOnUnmatchedRecord ==
    (\E rec \in AllRecords : Unmatched(rec)) =>
        /\ num_1_bits = Unbound
        /\ \A rec \in AllRecords : rec.signature.kind # "bitarray"

\* The swaps between set i and set j of the pool w that the spec admits and
\* that narrow the range of the two scores: a of set i and not of set j, b of
\* set j and not of set i, b more frequent than a.
NarrowingPairs(w, i, j) ==
    LET set_i == w[i].random_q_gram_set_with_freq
        set_j == w[j].random_q_gram_set_with_freq
    IN  {p \in set_i \X set_j :
            /\ p[1] \notin set_j
            /\ p[2] \notin set_i
            /\ FreqOf(p[2]) > FreqOf(p[1])
            /\ RLess(RAbs(RSub(Weight(Replace(set_j, p[2], p[1])),
                               Weight(Replace(set_i, p[1], p[2])))),
                     RSub(w[j].weighted_score, w[i].weighted_score))}

HasMinScore(w, i) == \A o \in DOMAIN w : ~RLess(w[o].weighted_score, w[i].weighted_score)
HasMaxScore(w, j) == \A o \in DOMAIN w : ~RLess(w[j].weighted_score, w[o].weighted_score)

\* C14: every accepted swap is a swap between a set of minimum score and a
\* set of maximum score; the pass in which that pair admits no swap changes
\* nothing and ends the swapping, and no set changes afterwards; when the
\* swapping has stopped, no admissible pair of the extreme sets narrows the range.
C14_OnlyExtremesThenStop ==
    /\ [](stop_processing =>
            NarrowingPairs(weighed_random_sets, MinKeyOf(weighed_random_sets),
                           MaxKeyOf(weighed_random_sets)) = {})
    /\ [][/\ (spc = "swapping" /\ weighed_random_sets' # weighed_random_sets) =>
                \E i, j \in DOMAIN weighed_random_sets :
                    /\ HasMinScore(weighed_random_sets, i)
                    /\ HasMaxScore(weighed_random_sets, j)
                    /\ \A o \in DOMAIN weighed_random_sets \ {i, j} :
                          weighed_random_sets'[o] = weighed_random_sets[o]
                    /\ \E p \in NarrowingPairs(weighed_random_sets, i, j) :
                          /\ weighed_random_sets'[i].random_q_gram_set_with_freq
                               = Replace(weighed_random_sets[i].random_q_gram_set_with_freq,
                                         p[1], p[2])
                          /\ weighed_random_sets'[j].random_q_gram_set_with_freq
                               = Replace(weighed_random_sets[j].random_q_gram_set_with_freq,
                                         p[2], p[1])
          /\ (spc = "swapping" /\ ~stop_processing
                /\ NarrowingPairs(weighed_random_sets, MinKeyOf(weighed_random_sets),
                                  MaxKeyOf(weighed_random_sets)) = {}) =>
                /\ weighed_random_sets' = weighed_random_sets
                /\ stop_processing' \/ spc' # "swapping"
          /\ stop_processing => weighed_random_sets' = weighed_random_sets]_vars

\* the swapping has stopped although another pair of sets, not the extreme
\* one, still admits a narrowing swap
C14_Witness ==
    /\ stop_processing
    /\ \E i, j \in DOMAIN weighed_random_sets :
          /\ <<i, j>> # <<MinKeyOf(weighed_random_sets), MaxKeyOf(weighed_random_sets)>>
          /\ NarrowingPairs(weighed_random_sets, i, j) # {}

\* C15: a stall of the swapping is never an error: when the extreme pair
\* admits no swap, the two assertions of the stall point hold and the pool is
\* returned; the swapping never ends in an exception.
C15_StallIsNotAnError ==
    /\ spc # "UnboundLocalError"
    /\ spc # "AssertionError"

\* the reference sets whose bit is 1 in a bit array (bit pos is at pos + 1)
OneBits(bits) == {pos - 1 : pos \in {p \in DOMAIN bits : bits[p] = 1}}

\* C16: in the final signature of every record the bits set to 1 are those of
\* the first num_1_bits entries of its ranking by descending similarity: each
\* reference set whose bit is 1 has a similarity with the record that is not
\* zero and not smaller than that of any reference set whose bit is 0.
C16_TopRanked ==
    \A rec \in AllRecords :
        rec.signature.kind = "bitarray" =>
            LET ones == OneBits(rec.signature.value)
                ranking == InitIntSignature(rec.record_q_gram, reference_q_gram_sets,
                                            initial_ls)
                sim(i) == q_gram_jacc_sim(rec.record_q_gram, reference_q_gram_sets[i])
            IN  /\ ones = {ranking[n][1] : n \in 1..num_1_bits}
                /\ \A i \in ones : RLess(Zero, sim(i))
                /\ \A i \in ones, j \in DOMAIN reference_q_gram_sets \ ones :
                      ~RLess(sim(i), sim(j))

\* a record keeps the bit of one reference set and loses that of another
\* reference set that it also intersects
C16_Witness ==
    /\ epc = "encoded2"
    /\ \E rec \in AllRecords :
          LET ones == OneBits(rec.signature.value)
          IN  /\ ones # {}
              /\ \E j \in DOMAIN reference_q_gram_sets \ ones :
                    reference_q_gram_sets[j] \cap rec.record_q_gram # {}

\* the frequency of a q-gram in the public table, 1 when the table lacks it
TableFrequency(q_gram) ==
    IF q_gram \in DOMAIN frequent_q_grams THEN frequent_q_grams[q_gram] ELSE 1

RECURSIVE TotalFrequency(_)
TotalFrequency(q_grams) ==
    IF q_grams = {} THEN 0
    ELSE LET q_gram == CHOOSE x \in q_grams : TRUE
         IN  TableFrequency(q_gram) + TotalFrequency(q_grams \ {q_gram})

\* C17: weigh_random_sets gives one entry per index of the file; it pairs
\* every q-gram of a reference set with its frequency of the table, or with 1
\* when the table lacks it, leaves the q-grams as they are, and the weighted
\* score is the sum of these frequencies divided by the number of q-grams.
C17_Weighing ==
    spc = "weighed" =>
        /\ DOMAIN weighed_random_sets = DOMAIN init_random_sets
        /\ \A index \in DOMAIN init_random_sets :
              LET weighed == weighed_random_sets[index]
                  qs_r == init_random_sets[index]
              IN  /\ weighed.random_set_only = qs_r
                  /\ weighed.random_q_gram_set_with_freq
                        = {<<q_gram, TableFrequency(q_gram)>> : q_gram \in qs_r}
                  /\ weighed.weighted_score.num * Cardinality(qs_r)
                        = TotalFrequency(qs_r) * weighed.weighted_score.den

\* a file of several rows, one of which has a q-gram of the table with a
\* frequency above 1 and a q-gram that the table lacks
C17_Witness ==
    /\ spc = "weighed"
    /\ Cardinality(DOMAIN init_random_sets) >= 2
    /\ \E index \in DOMAIN init_random_sets :
          /\ \E q_gram \in init_random_sets[index] : q_gram \notin DOMAIN frequent_q_grams
          /\ \E q_gram \in init_random_sets[index] :
                q_gram \in DOMAIN frequent_q_grams /\ frequent_q_grams[q_gram] >= 2

\* C18: the intermediate signature of every record holds only reference sets
\* that intersect the record's q-gram set, each with its Jaccard similarity,
\* in an order of non-increasing similarity, no index twice, and its length
\* is min(init_sign_length, number of intersecting reference sets).
C18_IntermediateSignature ==
    \A rec \in AllRecords :
        rec.signature.kind = "ranking" =>
            LET ranking == rec.signature.value
                intersecting == {i \in DOMAIN reference_q_gram_sets :
                                    reference_q_gram_sets[i] \cap rec.record_q_gram # {}}
            IN  /\ \A n \in DOMAIN ranking :
                      /\ ranking[n][1] \in intersecting
                      /\ REq(ranking[n][2],
                             q_gram_jacc_sim(rec.record_q_gram,
                                             reference_q_gram_sets[ranking[n][1]]))
                /\ \A n1, n2 \in DOMAIN ranking :
                      n1 < n2 => /\ ~RLess(ranking[n1][2], ranking[n2][2])
                                 /\ ranking[n1][1] # ranking[n2][1]
                /\ Len(ranking) = Min(initial_ls, Cardinality(intersecting))

\* three reference sets intersect the record, and the signature keeps two of
\* them, of different similarity
C18_Witness ==
    /\ epc = "returned"
    /\ initial_ls = 2
    /\ \E rec \in AllRecords :
          /\ \A i \in DOMAIN reference_q_gram_sets :
                reference_q_gram_sets[i] \cap rec.record_q_gram # {}
          /\ Len(rec.signature.value) = 2
          /\ RLess(rec.signature.value[2][2], rec.signature.value[1][2])

\* the keys of the buckets that hold the q-gram
BucketsOf(counter, q_gram) == {key \in DOMAIN counter : q_gram \in counter[key]}

\* C19: between accepted sets every q-gram of the alphabet is in exactly one
\* bucket, whose key is the number of accepted reference sets that contain
\* the q-gram; accepting a set moves each of its members up by one bucket and
\* leaves every other q-gram where it is.
C19_ExactBuckets ==
    /\ [](gpc \in {"while", "try", "returned"} =>
            \A q_gram \in q_c :
                BucketsOf(q_gram_counter, q_gram) = {Occurrences(q_gram)})
    /\ [][ref_sets' # ref_sets =>
            \E qs_r \in BagToSet(ref_sets') :
                /\ ref_sets' = ref_sets (+) SetToBag({qs_r})
                /\ \A q_gram \in q_c :
                      BucketsOf(q_gram_counter', q_gram)
                        = {key + (IF q_gram \in qs_r THEN 1 ELSE 0) :
                              key \in BucketsOf(q_gram_counter, q_gram)}]_vars

\* several sets are accepted and the q-grams are spread over three buckets
C19_Witness ==
    /\ gpc = "while"
    /\ BagCardinality(ref_sets) >= 3
    /\ \E q1, q2, q3 \in q_c :
          /\ Occurrences(q1) = 1
          /\ Occurrences(q2) = 2
          /\ Occurrences(q3) = 3

\* C20: on a retry with exactly r_length q-grams in the smallest bucket a
\* candidate is formed on every attempt: one q-gram of the smallest bucket and
\* r_length - 1 q-grams of the next bucket when that bucket holds as many,
\* and otherwise r_length q-grams sampled from the smallest bucket.
C20_RetryFormsCandidate ==
    (gpc = "try" /\ try_counter >= 1
        /\ Cardinality(q_grams_in_smallest_key) = r_length) =>
        LET next_key == q_gram_counter[counter_key + 1]
        IN  IF Cardinality(next_key) >= r_length - 1
            THEN /\ RetryCandidates # {}
                 /\ \A candidate \in RetryCandidates :
                       /\ candidate[1] \subseteq q_grams_in_smallest_key
                       /\ Cardinality(candidate[1]) = 1
                       /\ candidate[2] \subseteq next_key
                       /\ Cardinality(candidate[2]) = r_length - 1
            ELSE {candidate[1] \cup candidate[2] : candidate \in RetryCandidates}
                    = Sample(q_grams_in_smallest_key, r_length)

\* C21: every accepted swap exchanges a q-gram a of the min set that is not
\* in the max set with a q-gram b of the max set that is not in the min set,
\* b strictly more frequent than a; after it the score of the min set is
\* strictly higher, the score of the max set strictly lower, and the distance
\* of the two new scores strictly smaller than the range of the pool before.
C21_SwapNarrows ==
    [][(spc = "swapping" /\ weighed_random_sets' # weighed_random_sets) =>
          LET w == weighed_random_sets
              min_key == MinKeyOf(w)
              max_key == MaxKeyOf(w)
          IN  \E a \in w[min_key].random_set_only \ w[max_key].random_set_only,
                 b \in w[max_key].random_set_only \ w[min_key].random_set_only :
                  /\ TableFrequency(b) > TableFrequency(a)
                  /\ weighed_random_sets'[min_key].random_set_only
                        = (w[min_key].random_set_only \ {a}) \cup {b}
                  /\ weighed_random_sets'[max_key].random_set_only
                        = (w[max_key].random_set_only \ {b}) \cup {a}
                  /\ RLess(w[min_key].weighted_score,
                           weighed_random_sets'[min_key].weighted_score)
                  /\ RLess(weighed_random_sets'[max_key].weighted_score,
                           w[max_key].weighted_score)
                  /\ RLess(RAbs(RSub(weighed_random_sets'[max_key].weighted_score,
                                     weighed_random_sets'[min_key].weighted_score)),
                           Spread(w))]_vars

\* a swap was accepted in a pool of two reference sets without a common q-gram
C21_Witness ==
    /\ successful_modifications >= 1
    /\ DOMAIN init_random_sets = {0, 1}
    /\ init_random_sets[0] \cap init_random_sets[1] = {}
    /\ weighed_random_sets[0].random_set_only # init_random_sets[0]

RECURSIVE SumOfSquares(_, _)
SumOfSquares(w, indices) ==
    IF indices = {} THEN 0
    ELSE LET i == CHOOSE x \in indices : TRUE
             total == TotalFrequency(w[i].random_set_only)
         IN  total * total + SumOfSquares(w, indices \ {i})

\* C22: the swapping terminates: every run reaches the pass in which the
\* extreme pair admits no swap; there is no endless sequence of accepted
\* swaps, because each accepted swap lowers the sum over the pool of the
\* squared frequency totals of the sets.
C22_SwappingTerminates ==
    /\ (spc = "swapping") ~> (stop_processing \/ spc \in {"UnboundLocalError", "AssertionError"})
    /\ [][(spc = "swapping" /\ weighed_random_sets' # weighed_random_sets) =>
            SumOfSquares(weighed_random_sets', DOMAIN weighed_random_sets)
                < SumOfSquares(weighed_random_sets, DOMAIN weighed_random_sets)]_vars

\* the swapping has stopped after two accepted swaps
C22_Witness ==
    /\ stop_processing
    /\ successful_modifications = 2

\* The number of reference sets of a pool that contain a q-gram.
Holders(pool, q_gram) == Cardinality({i \in DOMAIN pool : q_gram \in pool[i]})

\* C23: rank swapping does not change, for any q-gram, the number of
\* reference sets that contain it: an accepted swap leaves that number as it
\* was and changes no set other than the min set and the max set, so during
\* and after the swapping every q-gram is in as many sets as in the pool that
\* was read, and a pool that covered every q-gram k times still does.
C23_SwapKeepsOccurrences ==
    /\ [](spc \in {"swapping", "swapped", "UnboundLocalError", "AssertionError",
                    "ValueError", "AttributeError"} =>
            /\ \A q_gram \in 1..MaxQ :
                  Holders(PoolOf(weighed_random_sets), q_gram)
                      = Holders(init_random_sets, q_gram)
            /\ \A cover \in 0..MaxM :
                  (\A q_gram \in 1..MaxQ : Holders(init_random_sets, q_gram) >= cover)
                      => \A q_gram \in 1..MaxQ :
                            Holders(PoolOf(weighed_random_sets), q_gram) >= cover)
    /\ [][(spc = "swapping" /\ weighed_random_sets' # weighed_random_sets) =>
            /\ DOMAIN weighed_random_sets' = DOMAIN weighed_random_sets
            /\ \A q_gram \in 1..MaxQ :
                  Holders(PoolOf(weighed_random_sets'), q_gram)
                      = Holders(PoolOf(weighed_random_sets), q_gram)
            /\ \A i \in DOMAIN weighed_random_sets :
                  i \notin {MinKeyOf(weighed_random_sets), MaxKeyOf(weighed_random_sets)}
                      => weighed_random_sets'[i] = weighed_random_sets[i]
            /\ \A i \in DOMAIN weighed_random_sets :
                  weighed_random_sets'[i].random_q_gram_set_with_freq
                      = {<<q_gram, TableFrequency(q_gram)>> :
                            q_gram \in weighed_random_sets'[i].random_set_only}]_vars

\* the swapping has stopped after a swap in a pool of three sets that holds
\* every q-gram, one of them twice, and whose third set shares a q-gram with
\* a swapped one
C23_Witness ==
    /\ stop_processing
    /\ successful_modifications >= 1
    /\ DOMAIN init_random_sets = 0..2
    /\ \A q_gram \in 1..MaxQ : Holders(init_random_sets, q_gram) >= 1
    /\ \E q_gram \in 1..MaxQ : Holders(init_random_sets, q_gram) = 2
    /\ \E i \in 0..2 : weighed_random_sets[i].random_set_only = init_random_sets[i]

\* C24: during and after generation no q-gram is in more than k + 1 reference
\* sets and no bucket has a key above k + 1: the bucket a round picks is the
\* one with the smallest key, that key is below k and the bucket is not empty,
\* and an accepted set holds q-grams of that bucket and of the bucket directly
\* above it only.
C24_AtMostKPlusOne ==
    /\ [](gpc \in {"while", "try", "returned"} =>
            /\ \A q_gram \in q_c : Occurrences(q_gram) <= k + 1
            /\ \A key \in DOMAIN q_gram_counter : key <= k + 1)
    /\ [](gpc = "try" =>
            /\ counter_key = MinKey(q_gram_counter)
            /\ counter_key < k
            /\ q_grams_in_smallest_key = q_gram_counter[counter_key]
            /\ q_grams_in_smallest_key # {})
    /\ [][ref_sets' # ref_sets =>
            \E qs_r \in BagToSet(ref_sets') :
                /\ ref_sets' = ref_sets (+) SetToBag({qs_r})
                /\ qs_r \subseteq q_gram_counter[counter_key]
                                    \cup (IF counter_key + 1 \in DOMAIN q_gram_counter
                                          THEN q_gram_counter[counter_key + 1] ELSE {})
                /\ qs_r \cap q_gram_counter[counter_key] # {}]_vars

\* the generation has returned with a q-gram in k + 1 reference sets, after
\* a round that filled up from the bucket above the smallest one
C24_Witness ==
    /\ gpc = "returned"
    /\ k >= 1
    /\ k + 1 \in DOMAIN q_gram_counter
    /\ \E q_gram \in q_c : Occurrences(q_gram) = k + 1
    /\ \E q_gram \in q_c : Occurrences(q_gram) = k

C26_SwappedPoolIsReturned ==
    [][spc = "swapped" =>
          /\ spc' = "returned"
          /\ processed_indexed_r' = PoolOf(weighed_random_sets)]_vars

====
